---- MODULE Spec2Model ----
(***************************************************************************)
(* Retry engine of libca (src/retry): retryAsync / retry (exception based) *)
(* and retryResult (Result based, in its recursive and its loop form).     *)
(*                                                                         *)
(* One behaviour fixes one option object (maxRetries, retryCondition,      *)
(* onRetry, backoff) and one sequence of per-attempt outcomes of the       *)
(* operation, and runs a session of every engine against them, one         *)
(* session after the other, so that sessions can be compared (Spec); or    *)
(* it runs neighbouring sessions concurrently, each on an option object    *)
(* of its own (SpecConc).                                                  *)
(* A step of a session is one synchronous run of its async function, from  *)
(* one await to the next.                                                  *)
(***************************************************************************)
EXTENDS Integers, Sequences, FiniteSets

\* Largest maxRetries the sessions are started with.
MaxRetries == 3
\* Largest maxRetries of the sessions that run concurrently.
ConcRetries == 2

\* The four entry points, in the order their sessions are run.
Order == <<"retryResultRecursive", "retryResultLoop", "retryAsync", "retry">>
Engines == {Order[i] : i \in 1..Len(Order)}
AsyncEngines == {"retryAsync", "retry"}
ResultEngines == {"retryResultRecursive", "retryResultLoop"}

\* What one invocation of the operation does: "ok" it succeeds, "failT" /
\* "failF" it fails with a flagged / unflagged error (the flag is
\* error.recoverable for a Result failure, truthiness for a thrown value),
\* "raise" it throws an exception (for a Result operation: instead of
\* returning a Result).
Outcomes == {"ok", "failT", "failF", "raise"}

\* options.retryCondition: absent ("default") or a caller's predicate.
Conditions == {"default", "always", "never", "inverse", "firstOnly", "throws"}
\* options.onRetry: absent, a callback that returns, a callback that throws.
OnRetryKinds == {"absent", "returns", "throws"}
\* options.backoff: a wait that resolves, or one that rejects.
BackoffKinds == {"resolves", "rejects"}

VARIABLES
    maxRetries,      \* options.maxRetries
    retryCondition,  \* options.retryCondition
    onRetry,         \* options.onRetry
    backoff,         \* options.backoff
    concurrent,      \* how many sessions the caller keeps running at a time
    script,          \* outcome of the operation's k-th invocation, as far as decided
    sess,            \* the session of each engine
    bk,              \* the backoff function under study (src/retry/backoff.ts)
    rs,              \* the call of a Result helper under study (src/result/utils.ts)
    fq               \* the fetch request under study (src/fetch/client.ts)

vars == <<maxRetries, retryCondition, onRetry, backoff, concurrent, script, sess, bk, rs, fq>>
opts == <<maxRetries, retryCondition, onRetry, backoff, concurrent>>
\* What a step of a retry session leaves alone.
aside == <<bk, rs, fq>>

NoPayload == [kind |-> "none", src |-> "none", id |-> 0, flag |-> FALSE]

\* success(value) / a returned value: the value of the k-th invocation.
success(k) == [kind |-> "success", src |-> "fn", id |-> k, flag |-> TRUE]
\* failure(error) with error.recoverable = flag, error made by invocation k.
failure(k, flag) == [kind |-> "failure", src |-> "fn", id |-> k, flag |-> flag]
\* A value thrown by `src` while attempt k was current; flag is its truthiness.
thrown(src, k, flag) == [kind |-> "thrown", src |-> src, id |-> k, flag |-> flag]

\* The operation handed to an engine, on its k-th invocation with outcome o.
\* retry/retryAsync take an operation that signals failure by throwing,
\* retryResult one that signals it by returning failure(error).
fn(e, k, o) ==
    IF o = "ok" THEN success(k)
    ELSE IF o = "raise" THEN thrown("fn", k, TRUE)
    ELSE IF e \in AsyncEngines THEN thrown("fn", k, o = "failT")
    ELSE failure(k, o = "failT")

\* A caller-supplied retryCondition(error, attempt): "true", "false" or "throw".
suppliedCondition(options, error, attempt) ==
    CASE options.retryCondition = "always" -> "true"
      [] options.retryCondition = "never" -> "false"
      [] options.retryCondition = "inverse" -> IF error.flag THEN "false" ELSE "true"
      [] options.retryCondition = "firstOnly" -> IF attempt <= 1 THEN "true" ELSE "false"
      [] options.retryCondition = "throws" -> "throw"

prepareOptions_always(options, error, attempt) ==
    IF options.retryCondition = "default" THEN "true" ELSE suppliedCondition(options, error, attempt)

\* retry.ts prepareOptions: retryCondition ?? ((error) => !!error)
prepareOptions(options, error, attempt) ==
    IF options.retryCondition = "default"
    THEN (IF error.flag THEN "true" ELSE "false")
    ELSE suppliedCondition(options, error, attempt)

prepareResultOptions_retryAll(options, error, attempt) ==
    IF options.retryCondition = "default" THEN "true" ELSE suppliedCondition(options, error, attempt)

\* retry-result.ts prepareResultOptions:
\*   retryCondition ?? ((error) => error.recoverable === true)
prepareResultOptions(options, error, attempt) ==
    IF options.retryCondition = "default"
    THEN (IF error.flag = TRUE THEN "true" ELSE "false")
    ELSE suppliedCondition(options, error, attempt)

\* retry-result.ts, loop form: retryCondition = (error) => error.recoverable === true
loopOptions(options, error, attempt) ==
    IF options.retryCondition = "default"
    THEN (IF error.flag = TRUE THEN "true" ELSE "false")
    ELSE suppliedCondition(options, error, attempt)

\* The first half of each engine's cutoff test.
retryRecursiveBudget_offByOne(options, attempt) == attempt >= options.maxRetries
retryRecursiveBudget_noRetry(options, attempt) == attempt >= 1
retryRecursiveBudget_never(options, attempt) == FALSE
retryRecursiveBudget(options, attempt) == attempt > options.maxRetries
retryResultRecursiveBudget(options, attempt) == attempt >= options.maxRetries
retryResultLoopBudget_extra(options, attempts) == ~(attempts <= options.maxRetries + 1)
retryResultLoopBudget(options, attempts) == ~(attempts <= options.maxRetries)

Event(ev, attempt, p) == [ev |-> ev, attempt |-> attempt, id |-> p.id, flag |-> p.flag]
Logged(s, ev, attempt, p) == [s EXCEPT !.log = Append(@, Event(ev, attempt, p))]

\* The session settles: its promise resolves with / rejects with p.
Resolve_rebuilt(s, p) == [s EXCEPT !.pc = "resolved", !.val = [p EXCEPT !.id = 0]]
Resolve(s, p) == [s EXCEPT !.pc = "resolved", !.val = p]
Reject_wrapped(s, p) == [s EXCEPT !.pc = "rejected", !.val = thrown("engine", p.id, TRUE)]
Reject(s, p) == [s EXCEPT !.pc = "rejected", !.val = p]

notifyAndBackoff_noBackoff(s, attempt, error) ==
    LET s1 == IF s.options.onRetry = "absent" THEN s ELSE Logged(s, "onRetry", attempt, error)
    IN IF s.options.onRetry = "throws"
       THEN Reject(s1, thrown("onRetry", attempt, TRUE))
       ELSE [s1 EXCEPT !.pc = "awaitBackoff"]

notifyAndBackoff_notAwaited(s, attempt, error) ==
    LET s1 == IF s.options.onRetry = "absent" THEN s ELSE Logged(s, "onRetry", attempt, error)
    IN IF s.options.onRetry = "throws"
       THEN Reject(s1, thrown("onRetry", attempt, TRUE))
       ELSE [Logged(Logged(s1, "backoff", attempt, NoPayload), "fn", s.calls + 1, NoPayload)
                EXCEPT !.calls = @ + 1, !.inflight = @ + 1,
                       !.attempt = attempt + 1, !.pc = "awaitFn"]

notifyAndBackoff_backoffFirst(s, attempt, error) ==
    LET s1 == Logged(s, "backoff", attempt, NoPayload)
        s2 == IF s.options.onRetry = "absent" THEN s1 ELSE Logged(s1, "onRetry", attempt, error)
    IN IF s.options.onRetry = "throws"
       THEN Reject(s2, thrown("onRetry", attempt, TRUE))
       ELSE [s2 EXCEPT !.pc = "awaitBackoff"]

notifyAndBackoff_nextAttempt(s, attempt, error) ==
    LET s1 == IF s.options.onRetry = "absent" THEN s ELSE Logged(s, "onRetry", attempt + 1, error)
    IN IF s.options.onRetry = "throws"
       THEN Reject(s1, thrown("onRetry", attempt, TRUE))
       ELSE [Logged(s1, "backoff", attempt, NoPayload) EXCEPT !.pc = "awaitBackoff"]

notifyAndBackoff_twice(s, attempt, error) ==
    LET s1 == IF s.options.onRetry = "absent" THEN s
              ELSE Logged(Logged(s, "onRetry", attempt, error), "onRetry", attempt, error)
    IN IF s.options.onRetry = "throws"
       THEN Reject(s1, thrown("onRetry", attempt, TRUE))
       ELSE [Logged(s1, "backoff", attempt, NoPayload) EXCEPT !.pc = "awaitBackoff"]

\* `if (onRetry) onRetry(attempt, error); await backoff(attempt);`
\* (retry.ts 67-73, retry-result.ts 55-61 and 127-133): the callback runs, then
\* backoff(attempt) is called and the session waits for it. A throwing
\* callback, or a backoff that throws when called, ends the async function.
notifyAndBackoff(s, attempt, error) ==
    LET s1 == IF s.options.onRetry = "absent" THEN s ELSE Logged(s, "onRetry", attempt, error)
    IN IF s.options.onRetry = "throws"
       THEN Reject(s1, thrown("onRetry", attempt, TRUE))
       ELSE [Logged(s1, "backoff", attempt, NoPayload) EXCEPT !.pc = "awaitBackoff"]

retryRecursiveAfter_firstError(s, p) ==
    IF p.kind = "success" THEN Resolve(s, p)
    ELSE LET first == IF s.calls > 1 /\ Len(script) >= 1
                      THEN fn("retryAsync", 1, script[1]) ELSE p
         IN IF retryRecursiveBudget(s.options, s.attempt) THEN Reject(s, first)
            ELSE LET c == prepareOptions(s.options, p, s.attempt)
                     s1 == Logged(s, "retryCondition", s.attempt, p)
                 IN IF c = "throw" THEN Reject(s1, thrown("retryCondition", s.attempt, TRUE))
                    ELSE IF c = "false" THEN Reject(s1, first)
                    ELSE notifyAndBackoff(s1, s.attempt, p)

retryRecursiveAfter_notifyFirst(s, p) ==
    IF p.kind = "success" THEN Resolve(s, p)
    ELSE LET s0 == IF s.options.onRetry = "absent" THEN s ELSE Logged(s, "onRetry", s.attempt, p)
         IN IF s.options.onRetry = "throws" THEN Reject(s0, thrown("onRetry", s.attempt, TRUE))
            ELSE IF retryRecursiveBudget(s.options, s.attempt) THEN Reject(s0, p)
            ELSE LET c == prepareOptions(s.options, p, s.attempt)
                     s1 == Logged(s0, "retryCondition", s.attempt, p)
                 IN IF c = "throw" THEN Reject(s1, thrown("retryCondition", s.attempt, TRUE))
                    ELSE IF c = "false" THEN Reject(s1, p)
                    ELSE [Logged(s1, "backoff", s.attempt, NoPayload) EXCEPT !.pc = "awaitBackoff"]

retryRecursiveAfter_conditionFirst(s, p) ==
    IF p.kind = "success" THEN Resolve(s, p)
    ELSE LET c == prepareOptions(s.options, p, s.attempt)
             s1 == Logged(s, "retryCondition", s.attempt, p)
         IN IF c = "throw" THEN Reject(s1, thrown("retryCondition", s.attempt, TRUE))
            ELSE IF c = "false" \/ retryRecursiveBudget(s.options, s.attempt)
            THEN Reject(s1, p)
            ELSE notifyAndBackoff(s1, s.attempt, p)

\* retry.ts retryRecursive 55-73, with result = the settled attemptExecution.
retryRecursiveAfter(s, p) ==
    IF p.kind = "success" THEN Resolve(s, p)
    ELSE IF retryRecursiveBudget(s.options, s.attempt) THEN Reject(s, p)
    ELSE LET c == prepareOptions(s.options, p, s.attempt)
             s1 == Logged(s, "retryCondition", s.attempt, p)
         IN IF c = "throw" THEN Reject(s1, thrown("retryCondition", s.attempt, TRUE))
            ELSE IF c = "false" THEN Reject(s1, p)
            ELSE notifyAndBackoff(s1, s.attempt, p)

\* retry-result.ts retryResultRecursive 43-61. `await fn()` is not guarded:
\* an operation that throws ends the async function with that value.
retryResultRecursiveAfter(s, p) ==
    IF p.kind = "thrown" THEN Reject(s, p)
    ELSE IF p.kind = "success" THEN Resolve(s, p)
    ELSE IF retryResultRecursiveBudget(s.options, s.attempt) THEN Resolve(s, p)
    ELSE LET c == prepareResultOptions(s.options, p, s.attempt)
             s1 == Logged(s, "retryCondition", s.attempt, p)
         IN IF c = "throw" THEN Reject(s1, thrown("retryCondition", s.attempt, TRUE))
            ELSE IF c = "false" THEN Resolve(s1, p)
            ELSE notifyAndBackoff(s1, s.attempt, p)

\* retry-result.ts retryResult (loop) 118-141: result = await fn() at 118
\* (then attempts = 1) or at 136 (then attempts++), followed by the while test.
retryResultLoopAfter(s, p) ==
    IF p.kind = "thrown" THEN Reject(s, p)
    ELSE LET s0 == [s EXCEPT !.attempt = @ + 1]
         IN IF p.kind = "success" THEN Resolve(s0, p)
            ELSE IF retryResultLoopBudget(s0.options, s0.attempt) THEN Resolve(s0, p)
            ELSE LET c == loopOptions(s.options, p, s0.attempt)
                     s1 == Logged(s0, "retryCondition", s0.attempt, p)
                 IN IF c = "throw"
                    THEN Reject(s1, thrown("retryCondition", s0.attempt, TRUE))
                    ELSE IF c = "false" THEN Resolve(s1, p)
                    ELSE notifyAndBackoff(s1, s0.attempt, p)

\* inflight counts the attempts (calls of fn as the engine sees it) that have
\* been started and have not settled.
\* options is the option object the session is called with; the engine
\* destructures it into locals when the session starts.
IdleSession(options) ==
    [pc |-> "idle", attempt |-> 0, calls |-> 0, inflight |-> 0,
     pending |-> NoPayload, val |-> NoPayload, log |-> <<>>, options |-> options]

Terminal(s) == s.pc \in {"resolved", "rejected"}

\* The caller starts the sessions in Order and keeps at most `concurrent` of
\* them running: a session is started once all but the last concurrent - 1
\* sessions before it have settled.
Runnable(e) ==
    \A i \in 1..Len(Order) :
        Order[i] = e =>
            \A j \in 1..(i - 1) : j + concurrent <= i => Terminal(sess[Order[j]])

\* The operation is invoked for the k-th time: its outcome is script[k],
\* decided now if no session got that far before.
Decide(k, o) ==
    /\ k <= Len(script) => o = script[k]
    /\ script' = IF k <= Len(script) THEN script ELSE Append(script, o)

\* fn() is called: the operation starts its next invocation.
Invoked(s) ==
    [Logged(s, "fn", s.calls + 1, NoPayload)
        EXCEPT !.calls = @ + 1, !.inflight = @ + 1, !.pc = "awaitFn"]

\* The awaited attempt hands its result to the engine.
Completed(s) ==
    [Logged(s, "fnDone", s.calls, NoPayload) EXCEPT !.inflight = @ - 1, !.pending = NoPayload]

\* The exported function is called: the engine runs up to its first await.
\* retryAsync / retryResult (recursive): attempt = 1 and fn() is called.
\* retryResult (loop): fn() is called, attempts is not declared yet.
\* retry: the wrapper is called, which only schedules the operation.
StartSession(e, s) ==
    IF e = "retry" THEN [s EXCEPT !.attempt = 1, !.inflight = @ + 1, !.pc = "lifted"]
    ELSE IF e = "retryResultLoop" THEN Invoked(s)
    ELSE Invoked([s EXCEPT !.attempt = 1])

\* retry: () => fn() runs inside the wrapper's promise and yields p at once.
Lifted(s, p) ==
    [Logged(s, "fn", s.calls + 1, NoPayload)
        EXCEPT !.calls = @ + 1, !.pending = p, !.pc = "awaitFn"]

\* The option object made of the four option variables.
Options ==
    [maxRetries |-> maxRetries, retryCondition |-> retryCondition,
     onRetry |-> onRetry, backoff |-> backoff]

(***************************************************************************)
(* Backoff calculator (src/retry/backoff.ts, two versions in the source:   *)
(* "helpers" with extractBackoffParams / calculateExponentialDelay /       *)
(* applyJitter / wait, and "inline" with the whole computation in the      *)
(* returned function). Numbers are exact fractions n/d; rounding of        *)
(* floating point arithmetic is not modelled.                              *)
(***************************************************************************)

\* Largest attempt number a backoff function is called with.
MaxAttempt == 4
\* Largest number of calls of one backoff function.
MaxCalls == 2
\* Math.random() yields k / RandomSteps, k in 0..RandomSteps-1 (never 1).
RandomSteps == 4

Frac(n, d) == [n |-> n, d |-> d]
Whole(n) == Frac(n, 1)
\* undefined: a field that is not set.
Undefined == Frac(0, 0)
Times(a, b) == Frac(a.n * b.n, a.d * b.d)
Plus(a, b) == Frac(a.n * b.d + b.n * a.d, a.d * b.d)
Minus(a, b) == Frac(a.n * b.d - b.n * a.d, a.d * b.d)
LessEq(a, b) == a.n * b.d <= b.n * a.d
Same(a, b) == a.n * b.d = b.n * a.d
\* Math.min, Math.max, Math.floor
min(a, b) == IF LessEq(a, b) THEN a ELSE b
max(a, b) == IF LessEq(a, b) THEN b ELSE a
floor(a) == Whole(a.n \div a.d)
\* 2 ** k
RECURSIVE Pow2(_)
Pow2(k) == IF k <= 0 THEN 1 ELSE 2 * Pow2(k - 1)

Versions == {"helpers", "inline"}

\* The values a caller sets a BackoffOptions field to, in ms / as a fraction.
BaseMsValues == {Frac(1, 2), Whole(3), Whole(3000), Whole(9000)}
MaxMsValues == {Whole(1000)}
JitterFactors == {Whole(0), Frac(1, 5), Whole(1)}
\* options?: BackoffOptions; given = FALSE is a call without options.
BackoffOptionsGiven ==
    [given : {TRUE}, baseMs : BaseMsValues \cup {Undefined},
     maxMs : MaxMsValues \cup {Undefined},
     jitterFactor : JitterFactors \cup {Undefined}]
NoBackoffOptions ==
    [given |-> FALSE, baseMs |-> Undefined, maxMs |-> Undefined,
     jitterFactor |-> Undefined]
BackoffOptions == BackoffOptionsGiven \cup {NoBackoffOptions}

\* a ?? b
Nullish(a, b) == IF a = Undefined THEN b ELSE a

extractBackoffParams_falsy(options) ==
    LET orElse(a, b) == IF a = Undefined \/ a.n = 0 THEN b ELSE a
    IN [baseMs |-> orElse(options.baseMs, Whole(200)),
        maxMs |-> orElse(options.maxMs, Whole(8000)),
        jitterFactor |-> orElse(options.jitterFactor, Frac(1, 5))]

\* options?.baseMs ?? 200, options?.maxMs ?? 8000, options?.jitterFactor ?? 0.2
extractBackoffParams(options) ==
    [baseMs |-> Nullish(options.baseMs, Whole(200)),
     maxMs |-> Nullish(options.maxMs, Whole(8000)),
     jitterFactor |-> Nullish(options.jitterFactor, Frac(1, 5))]

\* baseMs * (2 ** (attempt - 1))
calculateExponentialDelay(baseMs, attempt) == Times(baseMs, Whole(Pow2(attempt - 1)))

\* delay * jitterFactor * (Math.random() * 2 - 1), Math.random() = r
jitterAmount(delay, jitterFactor, r) ==
    Times(Times(delay, jitterFactor), Minus(Times(r, Whole(2)), Whole(1)))

\* helpers version: no jitter and no random draw when jitterFactor <= 0.
applyJitter(delay, jitterFactor, r) ==
    IF LessEq(jitterFactor, Whole(0)) THEN delay
    ELSE max(Whole(0), floor(Plus(delay, jitterAmount(delay, jitterFactor, r))))

\* inline version: the jitter is always computed and the sum always floored.
inlineJitter(delay, jitterFactor, r) ==
    max(Whole(0), floor(Plus(delay, jitterAmount(delay, jitterFactor, r))))

\* Math.random() is called while the delay is computed.
consultsRandom(version, params) ==
    version = "inline" \/ ~LessEq(params.jitterFactor, Whole(0))

clippedDelay_unclipped(params, attempt) ==
    calculateExponentialDelay(params.baseMs, attempt)

\* Math.min(exponentialDelay, maxMs)
clippedDelay(params, attempt) ==
    min(calculateExponentialDelay(params.baseMs, attempt), params.maxMs)

\* The delay handed to setTimeout by the function exponentialBackoffWithJitter
\* returned, called with attempt while Math.random() yields r.
finalDelay(version, params, attempt, r) ==
    IF version = "helpers"
    THEN applyJitter(clippedDelay(params, attempt), params.jitterFactor, r)
    ELSE inlineJitter(clippedDelay(params, attempt), params.jitterFactor, r)

\* One call of a backoff function: its argument, the value Math.random()
\* had in store, and the delay it waited.
NoCall == [attempt |-> 0, r |-> Undefined, delay |-> Undefined]

\* No backoff function has been made yet.
NoBackoff ==
    [pc |-> "none", version |-> "helpers", maker |-> "none",
     options |-> NoBackoffOptions, params |-> extractBackoffParams(NoBackoffOptions),
     calls |-> 0, draws |-> 0, prev |-> NoCall, last |-> NoCall]

\* The function returned by exponentialBackoffWithJitter(options): it closes
\* over the extracted parameters.
BackoffClosure(version, maker, options) ==
    [NoBackoff EXCEPT !.pc = "ready", !.version = version, !.maker = maker,
                      !.options = options, !.params = extractBackoffParams(options)]

\* exponentialBackoff(baseMs = 200) passes { baseMs, jitterFactor: 0 }.
ExponentialOptions(baseMs) ==
    [given |-> TRUE, baseMs |-> Nullish(baseMs, Whole(200)), maxMs |-> Undefined,
     jitterFactor |-> Whole(0)]

\* No Result helper has been called.
NoOutcome == [how |-> "none", val |-> 0]
NoHelper ==
    [pc |-> "idle", op |-> "none", input |-> 0, fn |-> "none", args |-> <<>>,
     out |-> NoOutcome]

\* No fetch request has been issued. retry is the request's retry option,
\* engine the form of retryResult in use, timeout whether a timeout is set,
\* replies what each call of fetch() met, notified the arguments of the
\* onRetry calls.
NoRetry == [given |-> FALSE, maxRetries |-> 0, onRetry |-> "absent"]
NoRequest ==
    [pc |-> "idle", retry |-> NoRetry, engine |-> "none", timeout |-> FALSE,
     calls |-> 0, replies |-> <<>>, notified |-> <<>>, out |-> NoOutcome]

\* The retry variables while no retry session is started.
RetryUnused ==
    /\ maxRetries = 0
    /\ retryCondition = "default"
    /\ onRetry = "absent"
    /\ backoff = "resolves"
    /\ concurrent = 1
    /\ script = <<>>
    /\ sess = [e \in Engines |-> IdleSession(Options)]

InitBackoff ==
    /\ RetryUnused
    /\ bk = NoBackoff
    /\ rs = NoHelper
    /\ fq = NoRequest

exponentialBackoffWithJitter ==
    /\ bk.pc = "none"
    /\ \E version \in Versions, options \in BackoffOptions :
        bk' = BackoffClosure(version, "exponentialBackoffWithJitter", options)
    /\ UNCHANGED <<opts, script, sess, rs, fq>>

exponentialBackoff ==
    /\ bk.pc = "none"
    /\ \E version \in Versions, baseMs \in BaseMsValues \cup {Undefined} :
        bk' = BackoffClosure(version, "exponentialBackoff", ExponentialOptions(baseMs))
    /\ UNCHANGED <<opts, script, sess, rs, fq>>

\* createBackoff(options) returns exponentialBackoffWithJitter(options).
createBackoff ==
    /\ bk.pc = "none"
    /\ \E version \in Versions, options \in BackoffOptions :
        bk' = BackoffClosure(version, "createBackoff", options)
    /\ UNCHANGED <<opts, script, sess, rs, fq>>

\* The backoff function is called with attempt: it computes the delay, with
\* or without a call of Math.random(), and starts the timer.
BackoffCalled ==
    /\ bk.pc = "ready"
    /\ bk.calls < MaxCalls
    /\ \E attempt \in 1..MaxAttempt, k \in 0..(RandomSteps - 1) :
        LET r == Frac(k, RandomSteps)
            drawn == consultsRandom(bk.version, bk.params)
        IN /\ ~drawn => k = 0
           /\ bk' = [bk EXCEPT
                !.pc = "waiting",
                !.calls = @ + 1,
                !.draws = IF drawn THEN @ + 1 ELSE @,
                !.prev = bk.last,
                !.last = [attempt |-> attempt,
                          r |-> IF drawn THEN r ELSE Undefined,
                          delay |-> finalDelay(bk.version, bk.params, attempt, r)]]
    /\ UNCHANGED <<opts, script, sess, rs, fq>>

\* setTimeout(resolve, delay) fires: the call of the backoff function resolves.
TimerFires ==
    /\ bk.pc = "waiting"
    /\ bk' = [bk EXCEPT !.pc = "ready"]
    /\ UNCHANGED <<opts, script, sess, rs, fq>>

NextBackoff ==
    \/ exponentialBackoffWithJitter
    \/ exponentialBackoff
    \/ createBackoff
    \/ BackoffCalled
    \/ TimerFires

(***************************************************************************)
(* Result helpers (src/result/utils.ts). A value or an error is a small    *)
(* number that stands for the object; a transform function is known by     *)
(* what it does when called. One behaviour is one call of one helper.      *)
(***************************************************************************)

\* Longest list handed to all().
MaxLen == 3

Values == {1, 2}
Errors == {1, 2}
\* { success: true, value } and { success: false, error }
Success(value) == [success |-> TRUE, value |-> value]
Failure(error) == [success |-> FALSE, error |-> error]
Results == {Success(v) : v \in Values} \cup {Failure(e) : e \in Errors}
ResultLists == UNION {[1..n -> Results] : n \in 0..MaxLen}

isSuccess(result) == result.success = TRUE
isFailure_always(result) == TRUE
isFailure(result) == result.success = FALSE

\* What a transform function does when it is called: it returns (for
\* flatMap: a success), it returns a failure (flatMap only), or it throws;
\* an async one resolves or rejects accordingly.
FnKinds == {"returns", "fails", "throws"}
\* The value / error / Result a transform makes of x.
Transformed(x) == x + 10
TransformedResult(kind, x) ==
    IF kind = "fails" THEN Failure(x + 30) ELSE Success(x + 10)

\* A thrown value: an Error instance or not, convertible by String() or not
\* (String(Object.create(null)) throws a TypeError).
Thrown(id, isError, printable) ==
    [id |-> id, isError |-> isError, printable |-> printable, message |-> 0]
ThrownValues ==
    {Thrown(1, TRUE, TRUE), Thrown(2, FALSE, TRUE), Thrown(3, FALSE, FALSE)}
\* What a throwing transform throws.
TransformError == Thrown(1, TRUE, TRUE)
\* new Error(String(x)): a new Error object whose message is x's string form.
NewError(x) == [id |-> 0, isError |-> TRUE, printable |-> TRUE, message |-> x.id]
\* The TypeError String(x) throws.
TypeError == [id |-> 0, isError |-> TRUE, printable |-> TRUE, message |-> 0 - 1]

\* How a call ended: "returned" / "raised" for a sync helper, "resolved" /
\* "rejected" for an async one.
Returned(val) == [how |-> "returned", val |-> val]
Raised(val) == [how |-> "raised", val |-> val]
Resolved(val) == [how |-> "resolved", val |-> val]
Rejected(val) == [how |-> "rejected", val |-> val]

\* A call of a helper; args lists the arguments its transform function was
\* called with.
Call(op, input, f, args, pc, out) ==
    [pc |-> pc, op |-> op, input |-> input, fn |-> f, args |-> args, out |-> out]

InitResult ==
    /\ RetryUnused
    /\ bk = NoBackoff
    /\ rs = NoHelper
    /\ fq = NoRequest

\* isSuccess(result) called on a Result built by success() or failure();
\* fn names the builder.
CallIsSuccess ==
    /\ rs.pc = "idle"
    /\ \/ \E v \in Values :
            rs' = Call("isSuccess", Success(v), "success", <<>>, "done",
                       Returned(isSuccess(Success(v))))
       \/ \E e \in Errors :
            rs' = Call("isSuccess", Failure(e), "failure", <<>>, "done",
                       Returned(isSuccess(Failure(e))))
    /\ UNCHANGED <<opts, script, sess, bk, fq>>

\* isFailure(result)
CallIsFailure ==
    /\ rs.pc = "idle"
    /\ \/ \E v \in Values :
            rs' = Call("isFailure", Success(v), "success", <<>>, "done",
                       Returned(isFailure(Success(v))))
       \/ \E e \in Errors :
            rs' = Call("isFailure", Failure(e), "failure", <<>>, "done",
                       Returned(isFailure(Failure(e))))
    /\ UNCHANGED <<opts, script, sess, bk, fq>>

\* Fallback values handed to unwrap: one that is also a success value, one
\* that is not.
Fallbacks == {1, 7}

unwrap_swapped ==
    /\ rs.pc = "idle"
    /\ \E result \in Results, fallback \in Fallbacks :
        rs' = Call("unwrap", [result |-> result, fallback |-> fallback], "none", <<>>,
                   "done",
                   Returned(IF isSuccess(result) THEN fallback ELSE result.error))
    /\ UNCHANGED <<opts, script, sess, bk, fq>>

\* unwrap(result, fallback)
unwrap ==
    /\ rs.pc = "idle"
    /\ \E result \in Results, fallback \in Fallbacks :
        rs' = Call("unwrap", [result |-> result, fallback |-> fallback], "none", <<>>,
                   "done",
                   Returned(IF isSuccess(result) THEN result.value ELSE fallback))
    /\ UNCHANGED <<opts, script, sess, bk, fq>>

\* The errorTransformer of unwrapOrThrow: the default parameter value
\* (e) => new Error(String(e)), or one supplied by the caller that returns
\* an Error or throws.
Transformers == {"default", "returns", "throws"}
\* The Error a supplied transformer makes of the error x.
CustomError(x) == [id |-> x.id + 20, isError |-> TRUE, printable |-> TRUE, message |-> 0]
\* throw errorTransformer(result.error)
errorTransformer(kind, x) ==
    IF kind = "throws" THEN Raised(TransformError)
    ELSE IF kind = "returns" THEN Raised(CustomError(x))
    ELSE IF x.printable THEN Raised(NewError(x))
    ELSE Raised(TypeError)

unwrapOrThrow_raw ==
    /\ rs.pc = "idle"
    /\ \E f \in Transformers :
        \/ \E v \in Values :
            rs' = Call("unwrapOrThrow", Success(v), f, <<>>, "done", Returned(v))
        \/ \E x \in ThrownValues :
            rs' = Call("unwrapOrThrow", Failure(x), f, <<>>, "done", Raised(x))
    /\ UNCHANGED <<opts, script, sess, bk, fq>>

\* unwrapOrThrow(result, errorTransformer)
unwrapOrThrow ==
    /\ rs.pc = "idle"
    /\ \E f \in Transformers :
        \/ \E v \in Values :
            rs' = Call("unwrapOrThrow", Success(v), f, <<>>, "done", Returned(v))
        \/ \E x \in ThrownValues :
            rs' = Call("unwrapOrThrow", Failure(x), f, <<x>>, "done",
                       errorTransformer(f, x))
    /\ UNCHANGED <<opts, script, sess, bk, fq>>

\* all: the for loop from element i on, values holding the values so far.
RECURSIVE allLoop(_, _, _)
allLoop(results, i, values) ==
    IF i > Len(results) THEN Success(values)
    ELSE IF ~isSuccess(results[i]) THEN results[i]
    ELSE allLoop(results, i + 1, Append(values, results[i].value))

all_lastFailure ==
    /\ rs.pc = "idle"
    /\ \E results \in ResultLists :
        LET bad == {i \in 1..Len(results) : ~isSuccess(results[i])}
        IN rs' = Call("all", results, "none", <<>>, "done",
                    Returned(IF bad = {} THEN allLoop(results, 1, <<>>)
                             ELSE results[CHOOSE i \in bad : \A j \in bad : j <= i]))
    /\ UNCHANGED <<opts, script, sess, bk, fq>>

all ==
    /\ rs.pc = "idle"
    /\ \E results \in ResultLists :
        rs' = Call("all", results, "none", <<>>, "done", Returned(allLoop(results, 1, <<>>)))
    /\ UNCHANGED <<opts, script, sess, bk, fq>>

map_eager ==
    /\ rs.pc = "idle"
    /\ \E result \in Results, f \in {"returns", "throws"} :
        rs' = IF f = "throws"
              THEN Call("map", result, f, <<0>>, "done", Raised(TransformError))
              ELSE IF isSuccess(result)
              THEN Call("map", result, f, <<result.value>>, "done",
                        Returned(Success(Transformed(result.value))))
              ELSE Call("map", result, f, <<result.error>>, "done",
                        Returned(Failure(result.error)))
    /\ UNCHANGED <<opts, script, sess, bk, fq>>

\* map(result, fn)
map ==
    /\ rs.pc = "idle"
    /\ \E result \in Results, f \in {"returns", "throws"} :
        rs' = IF isSuccess(result)
              THEN IF f = "throws"
                   THEN Call("map", result, f, <<result.value>>, "done",
                             Raised(TransformError))
                   ELSE Call("map", result, f, <<result.value>>, "done",
                             Returned(Success(Transformed(result.value))))
              ELSE Call("map", result, f, <<>>, "done", Returned(Failure(result.error)))
    /\ UNCHANGED <<opts, script, sess, bk, fq>>

\* flatMap(result, fn)
flatMap ==
    /\ rs.pc = "idle"
    /\ \E result \in Results, f \in FnKinds :
        rs' = IF isSuccess(result)
              THEN IF f = "throws"
                   THEN Call("flatMap", result, f, <<result.value>>, "done",
                             Raised(TransformError))
                   ELSE Call("flatMap", result, f, <<result.value>>, "done",
                             Returned(TransformedResult(f, result.value)))
              ELSE Call("flatMap", result, f, <<>>, "done",
                        Returned(Failure(result.error)))
    /\ UNCHANGED <<opts, script, sess, bk, fq>>

mapError_passThrough ==
    /\ rs.pc = "idle"
    /\ \E result \in Results, f \in {"returns", "throws"} :
        rs' = IF isSuccess(result)
              THEN Call("mapError", result, f, <<>>, "done",
                        Returned(Success(result.value)))
              ELSE Call("mapError", result, f, <<>>, "done",
                        Returned(Failure(result.error)))
    /\ UNCHANGED <<opts, script, sess, bk, fq>>

mapError_eager ==
    /\ rs.pc = "idle"
    /\ \E result \in Results, f \in {"returns", "throws"} :
        rs' = IF f = "throws"
              THEN Call("mapError", result, f, <<0>>, "done", Raised(TransformError))
              ELSE IF isSuccess(result)
              THEN Call("mapError", result, f, <<result.value>>, "done",
                        Returned(Success(Transformed(result.value))))
              ELSE Call("mapError", result, f, <<result.error>>, "done",
                        Returned(Failure(Transformed(result.error))))
    /\ UNCHANGED <<opts, script, sess, bk, fq>>

\* mapError(result, fn)
mapError ==
    /\ rs.pc = "idle"
    /\ \E result \in Results, f \in {"returns", "throws"} :
        rs' = IF isSuccess(result)
              THEN Call("mapError", result, f, <<>>, "done",
                        Returned(Success(result.value)))
              ELSE IF f = "throws"
              THEN Call("mapError", result, f, <<result.error>>, "done",
                        Raised(TransformError))
              ELSE Call("mapError", result, f, <<result.error>>, "done",
                        Returned(Failure(Transformed(result.error))))
    /\ UNCHANGED <<opts, script, sess, bk, fq>>

\* mapAsync(result, fn): on a success fn(result.value) is called and awaited.
mapAsync ==
    /\ rs.pc = "idle"
    /\ \E result \in Results, f \in {"returns", "throws"} :
        rs' = IF isSuccess(result)
              THEN Call("mapAsync", result, f, <<result.value>>, "awaitFn", NoOutcome)
              ELSE Call("mapAsync", result, f, <<>>, "done",
                        Resolved(Failure(result.error)))
    /\ UNCHANGED <<opts, script, sess, bk, fq>>

\* flatMapAsync(result, fn)
flatMapAsync ==
    /\ rs.pc = "idle"
    /\ \E result \in Results, f \in FnKinds :
        rs' = IF isSuccess(result)
              THEN Call("flatMapAsync", result, f, <<result.value>>, "awaitFn", NoOutcome)
              ELSE Call("flatMapAsync", result, f, <<>>, "done",
                        Resolved(Failure(result.error)))
    /\ UNCHANGED <<opts, script, sess, bk, fq>>

\* The promise of the transform awaited by mapAsync / flatMapAsync settles.
TransformSettles ==
    /\ rs.pc = "awaitFn"
    /\ rs.op \in {"mapAsync", "flatMapAsync"}
    /\ rs' = [rs EXCEPT
            !.pc = "done",
            !.out = IF rs.fn = "throws" THEN Rejected(TransformError)
                    ELSE IF rs.op = "mapAsync"
                    THEN Resolved(Success(Transformed(rs.input.value)))
                    ELSE Resolved(TransformedResult(rs.fn, rs.input.value))]
    /\ UNCHANGED <<opts, script, sess, bk, fq>>

\* The catch clause of tryAsync:
\*   failure(error instanceof Error ? error : new Error(String(error)))
tryAsyncCatch(error) ==
    IF error.isError THEN Resolved(Failure(error))
    ELSE IF error.printable THEN Resolved(Failure(NewError(error)))
    ELSE Rejected(TypeError)

\* tryAsync(fn, ...args): fn(...args) is called inside try: it throws at
\* once (input is the thrown value) or hands back a promise.
tryAsync ==
    /\ rs.pc = "idle"
    /\ \/ \E x \in ThrownValues :
            rs' = Call("tryAsync", x, "throws", <<0>>, "done", tryAsyncCatch(x))
       \/ rs' = Call("tryAsync", 0, "promise", <<0>>, "awaitFn", NoOutcome)
    /\ UNCHANGED <<opts, script, sess, bk, fq>>

\* The promise awaited by tryAsync resolves with a value or rejects.
TryAsyncSettles ==
    /\ rs.pc = "awaitFn"
    /\ rs.op = "tryAsync"
    /\ \/ \E v \in Values :
            rs' = [rs EXCEPT !.pc = "done", !.fn = "returns", !.input = v,
                             !.out = Resolved(Success(v))]
       \/ \E x \in ThrownValues :
            rs' = [rs EXCEPT !.pc = "done", !.fn = "throws", !.input = x,
                             !.out = tryAsyncCatch(x)]
    /\ UNCHANGED <<opts, script, sess, bk, fq>>

NextResult ==
    \/ CallIsSuccess
    \/ CallIsFailure
    \/ unwrap
    \/ unwrapOrThrow
    \/ all
    \/ map
    \/ flatMap
    \/ mapError
    \/ mapAsync
    \/ flatMapAsync
    \/ TransformSettles
    \/ tryAsync
    \/ TryAsyncSettles

(***************************************************************************)
(* The fetch client (src/fetch/client.ts, src/fetch/error.ts): one          *)
(* behaviour is one request handed to _fetchProcessRequest.                 *)
(***************************************************************************)

\* Largest retry.maxRetries of a request.
FetchRetries == 2

\* What a call of fetch() meets: a response with a status, a network error
\* (fetch rejects), or the abort of the request's timeout.
Statuses == {200, 204, 304, 404, 499, 500, 599}
Reply(kind, status) == [kind |-> kind, status |-> status]
Replies ==
    {Reply("response", st) : st \in Statuses}
        \cup {Reply("network", 0), Reply("timeout", 0)}

\* The retry option of a request.
RetryGiven ==
    [given : {TRUE}, maxRetries : 0..FetchRetries, onRetry : {"absent", "returns", "throws"}]

\* _fetchCreateErrorInfo(code, message, { statusCode, recoverable })
fetchCreateErrorInfo(code, statusCode, recoverable) ==
    [type |-> "fetch", code |-> code, statusCode |-> statusCode,
     recoverable |-> recoverable]
fetchCreateTimeoutError == fetchCreateErrorInfo("timeout", 0, TRUE)
fetchCreateNetworkError == fetchCreateErrorInfo("network_error", 0, TRUE)
fetchCreateHttpError_clientToo(status) ==
    fetchCreateErrorInfo("http_error", status, status >= 400 /\ status < 600)
\* recoverable: response.status >= 500 && response.status < 600
fetchCreateHttpError(status) ==
    fetchCreateErrorInfo("http_error", status, status >= 500 /\ status < 600)

\* response.ok
ok(status) == status >= 200 /\ status <= 299

\* _fetchFetchWithTimeout: the Result made of what fetch() met.
fetchFetchWithTimeout(reply) ==
    IF reply.kind = "timeout" THEN Failure(fetchCreateTimeoutError)
    ELSE IF reply.kind = "network" THEN Failure(fetchCreateNetworkError)
    ELSE IF ok(reply.status) THEN Success(reply.status)
    ELSE Failure(fetchCreateHttpError(reply.status))

InitFetch ==
    /\ RetryUnused
    /\ bk = NoBackoff
    /\ rs = NoHelper
    /\ fq = NoRequest

\* _fetchProcessRequest(url, options): without retry it returns
\* _fetchFetchWithTimeout(...), with retry it calls retryResult, whose
\* operation calls _fetchFetchWithTimeout; either way fetch() is called.
fetchProcessRequest ==
    /\ fq.pc = "idle"
    /\ \E retry \in RetryGiven \cup {NoRetry}, engine \in {"recursive", "loop"},
          timeout \in BOOLEAN :
        /\ ~retry.given => engine = "recursive"
        /\ fq' = [fq EXCEPT !.pc = "awaitFetch", !.retry = retry,
                             !.engine = IF retry.given THEN engine ELSE "none",
                             !.timeout = timeout, !.calls = 1]
    /\ UNCHANGED <<opts, script, sess, bk, rs>>

\* The cutoff test of retryResult with
\* retryCondition: (error) => error.recoverable, after attempt `attempt`.
fetchRetryStops(engine, retry, attempt, error) ==
    \/ IF engine = "recursive" THEN retryResultRecursiveBudget(retry, attempt)
       ELSE retryResultLoopBudget(retry, attempt)
    \/ ~error.recoverable

\* The awaited fetch() settles and the request runs to its next await or
\* its end: without retry the Result is returned; with retry a success or a
\* failure that stops the engine is returned, and else onRetry (the
\* caller's, or a debug line of the logger) runs and the backoff starts.
FetchSettles ==
    /\ fq.pc = "awaitFetch"
    /\ \E reply \in Replies :
        /\ reply.kind = "timeout" => fq.timeout
        /\ LET res == fetchFetchWithTimeout(reply)
               f1 == [fq EXCEPT !.replies = Append(@, reply)]
           IN fq' =
                IF ~fq.retry.given \/ isSuccess(res)
                   \/ fetchRetryStops(fq.engine, fq.retry, fq.calls, res.error)
                THEN [f1 EXCEPT !.pc = "done", !.out = Resolved(res)]
                ELSE IF fq.retry.onRetry = "throws"
                THEN [f1 EXCEPT !.pc = "done", !.out = Rejected(TransformError),
                                !.notified = Append(@, <<fq.calls, res.error>>)]
                ELSE [f1 EXCEPT !.pc = "awaitBackoff",
                                !.notified = IF fq.retry.onRetry = "returns"
                                             THEN Append(@, <<fq.calls, res.error>>)
                                             ELSE @]
    /\ UNCHANGED <<opts, script, sess, bk, rs>>

\* The backoff made by exponentialBackoffWithJitter resolves: retryResult
\* calls the operation again, which calls fetch().
FetchBackoffSettles ==
    /\ fq.pc = "awaitBackoff"
    /\ fq' = [fq EXCEPT !.pc = "awaitFetch", !.calls = @ + 1]
    /\ UNCHANGED <<opts, script, sess, bk, rs>>

NextFetch ==
    \/ fetchProcessRequest
    \/ FetchSettles
    \/ FetchBackoffSettles

\* Every session is called with the same options, one session at a time.
Init ==
    /\ maxRetries \in 0..MaxRetries
    /\ retryCondition \in Conditions
    /\ onRetry \in OnRetryKinds
    /\ backoff \in BackoffKinds
    /\ concurrent = 1
    /\ script = <<>>
    /\ sess = [e \in Engines |-> IdleSession(Options)]
    /\ bk = NoBackoff
    /\ rs = NoHelper
    /\ fq = NoRequest

\* The option objects of concurrent sessions: no retryCondition or one that
\* always holds, an onRetry callback that returns or throws, a backoff that
\* resolves or rejects.
ConcConditions == {"default", "always"}
ConcOnRetryKinds == {"returns", "throws"}
ConcOptions ==
    [maxRetries : 0..ConcRetries, retryCondition : ConcConditions,
     onRetry : ConcOnRetryKinds, backoff : BackoffKinds]

\* The first and third session of Order are called with Options, the second
\* and fourth with an option object of their own, and a session runs
\* concurrently with its neighbours in Order.
InitConc ==
    /\ maxRetries \in 0..ConcRetries
    /\ retryCondition \in ConcConditions
    /\ onRetry \in ConcOnRetryKinds
    /\ backoff \in BackoffKinds
    /\ concurrent = 2
    /\ script = <<>>
    /\ \E other \in ConcOptions :
        sess = [e \in Engines |->
                IdleSession(IF e \in {Order[1], Order[3]} THEN Options ELSE other)]
    /\ bk = NoBackoff
    /\ rs = NoHelper
    /\ fq = NoRequest

\* retryAsync(fn, options): prepareOptions, retryRecursive(attempt = 1),
\* attemptExecution calls fn() and awaits it.
retryAsync ==
    /\ Runnable("retryAsync")
    /\ sess["retryAsync"].pc = "idle"
    /\ sess' = [sess EXCEPT !["retryAsync"] = StartSession("retryAsync", @)]
    /\ UNCHANGED <<opts, script, aside>>

\* retry(fn, options): retryAsync on () => Promise.resolve().then(() => fn());
\* attemptExecution calls the wrapper, which only schedules fn.
retry ==
    /\ Runnable("retry")
    /\ sess["retry"].pc = "idle"
    /\ sess' = [sess EXCEPT !["retry"] = StartSession("retry", @)]
    /\ UNCHANGED <<opts, script, aside>>

\* The .then callback of retry's wrapper runs: the synchronous operation is
\* called and returns or throws at once.
retryLifted ==
    /\ sess["retry"].pc = "lifted"
    /\ \E o \in Outcomes :
        /\ Decide(sess["retry"].calls + 1, o)
        /\ sess' = [sess EXCEPT !["retry"] =
                Lifted(@, fn("retry", sess["retry"].calls + 1, o))]
    /\ UNCHANGED <<opts, aside>>

\* retryResult(fn, options), recursive form: prepareResultOptions,
\* retryResultRecursive(attempt = 1), `await fn()`.
retryResultRecursive ==
    /\ Runnable("retryResultRecursive")
    /\ sess["retryResultRecursive"].pc = "idle"
    /\ sess' = [sess EXCEPT !["retryResultRecursive"] =
            StartSession("retryResultRecursive", @)]
    /\ UNCHANGED <<opts, script, aside>>

\* retryResult(fn, options), loop form: `let result = await fn()`; attempts
\* is not declared before that await has settled.
retryResultLoop ==
    /\ Runnable("retryResultLoop")
    /\ sess["retryResultLoop"].pc = "idle"
    /\ sess' = [sess EXCEPT !["retryResultLoop"] = StartSession("retryResultLoop", @)]
    /\ UNCHANGED <<opts, script, aside>>

\* The engine's code from the settled attempt to its next await or its end.
AfterAttempt(e, s, p) ==
    CASE e \in AsyncEngines -> retryRecursiveAfter(s, p)
      [] e = "retryResultRecursive" -> retryResultRecursiveAfter(s, p)
      [] e = "retryResultLoop" -> retryResultLoopAfter(s, p)

\* The awaited invocation of an asynchronous operation settles.
FnSettles(e) ==
    /\ e # "retry"
    /\ sess[e].pc = "awaitFn"
    /\ \E o \in Outcomes :
        /\ Decide(sess[e].calls, o)
        /\ sess' = [sess EXCEPT ![e] =
                AfterAttempt(e, Completed(@), fn(e, sess[e].calls, o))]
    /\ UNCHANGED <<opts, aside>>

LiftedSettles_caught ==
    /\ sess["retry"].pc = "awaitFn"
    /\ sess' = [sess EXCEPT !["retry"] =
            AfterAttempt("retry", Completed(@),
                IF sess["retry"].pending.kind = "thrown"
                THEN success(sess["retry"].calls) ELSE sess["retry"].pending)]
    /\ UNCHANGED <<opts, script, aside>>

\* retry: the wrapper's promise hands over what the operation returned or threw.
LiftedSettles ==
    /\ sess["retry"].pc = "awaitFn"
    /\ sess' = [sess EXCEPT !["retry"] =
            AfterAttempt("retry", Completed(@), sess["retry"].pending)]
    /\ UNCHANGED <<opts, script, aside>>

AfterBackoff_sharedAttempt(e, s) ==
    IF s.options.backoff = "rejects"
    THEN Reject(s, thrown("backoff", s.calls, TRUE))
    ELSE LET s1 == Logged(s, "backoffDone", s.calls, NoPayload)
             latest == CHOOSE n \in {sess[x].attempt : x \in Engines} :
                            \A x \in Engines : sess[x].attempt <= n
         IN IF e = "retry"
            THEN [s1 EXCEPT !.attempt = latest + 1, !.inflight = @ + 1, !.pc = "lifted"]
            ELSE IF e = "retryResultLoop" THEN Invoked(s1)
            ELSE Invoked([s1 EXCEPT !.attempt = latest + 1])

\* The awaited backoff(attempt) settles. Resolved: the engine goes on to the
\* next attempt (recursive call with attempt + 1, or the loop's next fn()).
\* Rejected: the async function ends with the backoff's error.
AfterBackoff(e, s) ==
    IF s.options.backoff = "rejects"
    THEN Reject(s, thrown("backoff", s.calls, TRUE))
    ELSE LET s1 == Logged(s, "backoffDone", s.calls, NoPayload)
         IN IF e = "retry"
            THEN [s1 EXCEPT !.attempt = @ + 1, !.inflight = @ + 1, !.pc = "lifted"]
            ELSE IF e = "retryResultLoop" THEN Invoked(s1)
            ELSE Invoked([s1 EXCEPT !.attempt = @ + 1])

BackoffSettles(e) ==
    /\ sess[e].pc = "awaitBackoff"
    /\ sess' = [sess EXCEPT ![e] = AfterBackoff(e, @)]
    /\ UNCHANGED <<opts, script, aside>>

Next ==
    \/ retryAsync
    \/ retry
    \/ retryLifted
    \/ retryResultRecursive
    \/ retryResultLoop
    \/ \E e \in Engines : FnSettles(e)
    \/ LiftedSettles
    \/ \E e \in Engines : BackoffSettles(e)

Spec == Init /\ [][Next]_vars
SpecConc == InitConc /\ [][Next]_vars
\* Every call the caller makes is made, the microtask of retry's wrapper
\* runs, and every awaited operation and backoff call completes.
Fairness ==
    /\ WF_vars(retryAsync) /\ WF_vars(retry) /\ WF_vars(retryLifted)
    /\ WF_vars(retryResultRecursive) /\ WF_vars(retryResultLoop)
    /\ WF_vars(LiftedSettles)
    /\ \A e \in Engines : WF_vars(FnSettles(e)) /\ WF_vars(BackoffSettles(e))
SpecLive == Init /\ [][Next]_vars /\ Fairness
SpecBackoff == InitBackoff /\ [][NextBackoff]_vars
SpecResult == InitResult /\ [][NextResult]_vars
SpecFetch == InitFetch /\ [][NextFetch]_vars

(***************************************************************************)
(* Properties                                                              *)
(***************************************************************************)

\* None of the caller's callbacks fails.
WellBehaved ==
    /\ retryCondition # "throws"
    /\ onRetry # "throws"
    /\ backoff = "resolves"

\* The (attempt, error id) pairs of the session's events of one kind, in order.
EventsOf(s, ev) == SelectSeq(s.log, LAMBDA x : x.ev = ev)
CountOf(s, ev) == Len(EventsOf(s, ev))

\* The invocations 1..k of the operation all have an outcome in S.
AllOutcomes(k, S) == k <= Len(script) /\ \A j \in 1..k : script[j] \in S

\* The supplied predicate (or the default on the flag) lets attempt k go on.
Allows(k) ==
    CASE retryCondition = "default" -> script[k] \in {"failT", "raise"}
      [] retryCondition = "always" -> TRUE
      [] retryCondition = "never" -> FALSE
      [] retryCondition = "inverse" -> script[k] = "failF"
      [] retryCondition = "firstOnly" -> k <= 1
      [] retryCondition = "throws" -> FALSE

\* C1: retryAsync / retry, operation raising on every invocation,
\* retryCondition always allowing to continue, maxRetries = n: when the
\* session has ended it has rejected, the operation was invoked exactly n+1
\* times and onRetry exactly n times; it is never invoked more often before.
C1_ExhaustionCounts ==
    \A e \in AsyncEngines :
        (/\ WellBehaved
         /\ \A j \in 1..Len(script) :
                j <= sess[e].calls => script[j] # "ok" /\ Allows(j))
        => /\ sess[e].calls <= maxRetries + 1
           /\ Terminal(sess[e]) =>
                /\ sess[e].pc = "rejected"
                /\ sess[e].calls = maxRetries + 1
                /\ onRetry = "returns" => CountOf(sess[e], "onRetry") = maxRetries

C1_Witness ==
    /\ WellBehaved /\ onRetry = "returns" /\ maxRetries >= 2
    /\ AllOutcomes(maxRetries + 1, {"failT", "failF", "raise"})
    /\ \A j \in 1..(maxRetries + 1) : Allows(j)
    /\ \A e \in AsyncEngines :
        /\ sess[e].pc = "rejected"
        /\ sess[e].calls = maxRetries + 1
        /\ CountOf(sess[e], "onRetry") = maxRetries

\* C2: retryResult, operation returning failure({recoverable: true}) on
\* every invocation, default retryCondition, maxRetries = n: the session
\* resolves with a failure Result after exactly n+1 invocations.
C2_ResultExhaustionCounts ==
    \A e \in ResultEngines :
        (/\ onRetry # "throws" /\ backoff = "resolves" /\ retryCondition = "default"
         /\ Terminal(sess[e])
         /\ AllOutcomes(sess[e].calls, {"failT"}))
        => /\ sess[e].pc = "resolved"
           /\ sess[e].val.kind = "failure"
           /\ sess[e].calls = maxRetries + 1

\* How a session ended, in terms shared by both kinds of engine: Done with
\* the value of invocation k, or Failed with the failure of invocation k.
Ending(e) ==
    LET s == sess[e]
    IN IF s.pc = "resolved" /\ s.val.kind = "success" THEN <<"Done", s.val.id>>
       ELSE IF e \in AsyncEngines /\ s.pc = "rejected" /\ s.val.src = "fn"
            THEN <<"Failed", s.val.id>>
       ELSE IF e \in ResultEngines /\ s.pc = "resolved" /\ s.val.kind = "failure"
            THEN <<"Failed", s.val.id>>
       ELSE <<"Other", 0>>

Attempts(s, ev) == [i \in 1..CountOf(s, ev) |-> EventsOf(s, ev)[i].attempt]

\* C3: for the same maxRetries and the same outcomes (success, continuable
\* failure, non-continuable failure), retryAsync and retryResult invoke the
\* operation, onRetry and backoff equally often with the same attempt numbers
\* and end in the corresponding terminal state.
C3_EnginesCountAlike ==
    (/\ WellBehaved
     /\ \A e \in Engines : Terminal(sess[e])
     /\ \A j \in 1..Len(script) : script[j] # "raise")
    => \A a \in AsyncEngines, r \in ResultEngines :
        /\ sess[a].calls = sess[r].calls
        /\ Attempts(sess[a], "onRetry") = Attempts(sess[r], "onRetry")
        /\ Attempts(sess[a], "backoff") = Attempts(sess[r], "backoff")
        /\ Ending(a) = Ending(r)

\* C4: a retryResult session never rejects, whatever the operation and the
\* callbacks do.
C4_ResultNeverRejects ==
    \A e \in ResultEngines : sess[e].pc # "rejected"

C6_RejectsWithLastError ==
    \A e \in AsyncEngines :
        sess[e].pc = "rejected" =>
            /\ sess[e].val.src = "fn" =>
                /\ sess[e].calls <= Len(script)
                /\ sess[e].val = fn(e, sess[e].calls, script[sess[e].calls])
            /\ WellBehaved => sess[e].val.src = "fn"

C6_Witness ==
    /\ WellBehaved /\ Len(script) >= 3
    /\ \A e \in AsyncEngines :
        /\ sess[e].pc = "rejected"
        /\ sess[e].calls = 3
        /\ sess[e].val = thrown("fn", 3, TRUE)
    /\ script[1] = "failF" /\ script[2] = "failF"

\* The first invocation that succeeds, 0 if none is known.
FirstOk ==
    IF \E k \in 1..Len(script) : script[k] = "ok"
    THEN CHOOSE k \in 1..Len(script) :
            script[k] = "ok" /\ \A j \in 1..(k - 1) : script[j] # "ok"
    ELSE 0

\* C7: if the k-th invocation is the first success, k <= maxRetries + 1 and
\* every earlier failure is continuable, a settled retryAsync (or retry)
\* session has resolved with the k-th value after exactly k invocations, and
\* no session invokes the operation again after a success.
C7_FirstSuccessEndsSession ==
    \A e \in AsyncEngines :
        /\ (/\ WellBehaved
            /\ Terminal(sess[e])
            /\ FirstOk >= 1 /\ FirstOk <= maxRetries + 1
            /\ \A j \in 1..(FirstOk - 1) : Allows(j))
           => /\ sess[e].pc = "resolved"
              /\ sess[e].val = success(FirstOk)
              /\ sess[e].calls = FirstOk
        /\ FirstOk >= 1 => sess[e].calls <= FirstOk

C7_Witness ==
    /\ WellBehaved /\ maxRetries = 2 /\ FirstOk = 3
    /\ \A e \in AsyncEngines :
        /\ sess[e].pc = "resolved"
        /\ sess[e].val = success(3)
        /\ sess[e].calls = 3

\* An invocation j of session s has settled.
Settled(e, j) ==
    j <= Len(script) /\ (j < sess[e].calls \/ (j = sess[e].calls /\ sess[e].pc # "awaitFn"))

\* C8: retryResult without a retryCondition: once an invocation j has
\* returned a failure whose recoverable is not true, the session is over: it
\* has resolved with that failure and the operation was invoked exactly j
\* times, whatever maxRetries is.
C8_StopsAtNonRecoverable ==
    \A e \in ResultEngines :
        retryCondition = "default" =>
            \A j \in 1..Len(script) :
                (Settled(e, j) /\ script[j] = "failF") =>
                    /\ sess[e].calls = j
                    /\ sess[e].pc = "resolved"
                    /\ sess[e].val = failure(j, FALSE)

C8_Witness ==
    /\ retryCondition = "default" /\ maxRetries = 3
    /\ Len(script) >= 2 /\ script[1] = "failT" /\ script[2] = "failF"
    /\ \A e \in ResultEngines :
        /\ sess[e].pc = "resolved"
        /\ sess[e].calls = 2
        /\ sess[e].val = failure(2, FALSE)

\* C9: a supplied retryCondition replaces the default in retryResult: a
\* session that has ended on the failure of attempt k did so because the
\* predicate returned false for it or because no budget remained
\* (k > maxRetries), whatever the failure's recoverable flag; and it never
\* went past a failure for which the predicate returned false.
C9_SuppliedConditionDecides ==
    \A e \in ResultEngines :
        (WellBehaved /\ retryCondition # "default") =>
            /\ (sess[e].pc = "resolved" /\ sess[e].val.kind = "failure")
                => (~Allows(sess[e].calls) \/ sess[e].calls > maxRetries)
            /\ \A j \in 1..Len(script) :
                (j < sess[e].calls /\ script[j] \in {"failT", "failF"}) => Allows(j)

\* C10: with an onRetry that returns and a backoff that resolves, onRetry is
\* called once for each failed attempt that is followed by another attempt,
\* in order, and neither for the failed attempt that ends the session nor for
\* a successful one.
C10_OnRetryPerRetriedFailure ==
    \A e \in Engines :
        (onRetry = "returns" /\ backoff = "resolves") =>
            LET s == sess[e]
                R == Attempts(s, "onRetry")
            IN /\ \A i \in 1..Len(R) :
                    R[i] = i /\ i <= Len(script) /\ script[i] # "ok"
               /\ (Terminal(s) \/ s.pc = "awaitFn") => Len(R) = s.calls - 1
               /\ s.pc \in {"awaitBackoff", "lifted"} => Len(R) = s.calls

C10_Witness ==
    /\ onRetry = "returns" /\ backoff = "resolves"
    /\ \A e \in Engines :
        /\ Terminal(sess[e])
        /\ sess[e].calls >= 3
        /\ script[sess[e].calls] # "ok"
        /\ CountOf(sess[e], "onRetry") = sess[e].calls - 1

\* The log of session s has an event ev of attempt k / its index.
Has(s, ev, k) == \E i \in DOMAIN s.log : s.log[i].ev = ev /\ s.log[i].attempt = k
Pos(s, ev, k) == CHOOSE i \in DOMAIN s.log : s.log[i].ev = ev /\ s.log[i].attempt = k
Once(s, ev, k) ==
    Cardinality({i \in DOMAIN s.log : s.log[i].ev = ev /\ s.log[i].attempt = k}) = 1
\* The indices of the backoff calls logged strictly between indices a and b.
Waits(s, a, b) == {i \in DOMAIN s.log : a < i /\ i < b /\ s.log[i].ev = "backoff"}

\* C11: with a backoff that resolves, every engine calls and awaits backoff
\* exactly once between two consecutive attempts, and at no other time:
\* not before attempt 1 and not after the attempt that ends the session.
C11_BackoffBetweenAttempts ==
    \A e \in Engines :
        backoff = "resolves" =>
            LET s == sess[e]
            IN /\ s.calls = 0 => CountOf(s, "backoff") = 0
               /\ s.calls >= 1 => Waits(s, 0, Pos(s, "fn", 1)) = {}
               /\ \A k \in 1..(s.calls - 1) :
                    /\ Cardinality(Waits(s, Pos(s, "fn", k), Pos(s, "fn", k + 1))) = 1
                    /\ Once(s, "backoff", k) /\ Once(s, "backoffDone", k)
                    /\ Pos(s, "fn", k) < Pos(s, "backoff", k)
                    /\ Pos(s, "backoff", k) < Pos(s, "backoffDone", k)
                    /\ Pos(s, "backoffDone", k) < Pos(s, "fn", k + 1)
               /\ (Terminal(s) /\ s.calls >= 1) =>
                    Waits(s, Pos(s, "fn", s.calls), Len(s.log) + 1) = {}

C11_Witness ==
    /\ backoff = "resolves"
    /\ sess["retryResultRecursive"].pc = "resolved"
    /\ sess["retryResultRecursive"].val.kind = "failure"
    /\ sess["retryResultRecursive"].calls = 3
    /\ CountOf(sess["retryResultRecursive"], "backoff") = 2
    /\ sess["retry"].pc = "resolved"
    /\ sess["retry"].calls = 4
    /\ CountOf(sess["retry"], "backoff") = 3

\* C12: in a session at most one attempt is in flight, none while the
\* session waits for backoff, and attempt k+1 starts only after attempt k has
\* settled and the backoff wait after attempt k has resolved.
C12_AttemptsSequential ==
    \A e \in Engines :
        LET s == sess[e]
        IN /\ s.inflight <= 1
           /\ s.pc = "awaitBackoff" => s.inflight = 0
           /\ Terminal(s) => s.inflight = 0
           /\ Attempts(s, "fn") = [i \in 1..s.calls |-> i]
           /\ \A k \in 1..(s.calls - 1) :
                /\ Has(s, "fnDone", k) /\ Has(s, "backoffDone", k)
                /\ Pos(s, "fn", k) < Pos(s, "fnDone", k)
                /\ Pos(s, "fnDone", k) < Pos(s, "backoffDone", k)
                /\ Pos(s, "backoffDone", k) < Pos(s, "fn", k + 1)

C12_Witness ==
    /\ \A e \in Engines \ {"retry"} : Terminal(sess[e]) /\ sess[e].calls >= 2
    /\ sess["retry"].pc = "awaitFn"
    /\ sess["retry"].inflight = 1
    /\ sess["retry"].calls = 3
    /\ Has(sess["retry"], "fnDone", 2)
    /\ Has(sess["retry"], "backoffDone", 2)

\* C13: after a failed attempt k that is retried the engine evaluates the
\* cutoff test (retryCondition), then calls onRetry(k, error of k), then
\* calls backoff(k) and waits for it, then starts attempt k+1.
C13_RetryStepOrder ==
    \A e \in Engines :
        LET s == sess[e]
        IN /\ \A k \in 1..(s.calls - 1) :
                /\ Once(s, "fnDone", k) /\ Once(s, "retryCondition", k)
                /\ Once(s, "backoff", k) /\ Once(s, "backoffDone", k)
                /\ Pos(s, "fnDone", k) < Pos(s, "retryCondition", k)
                /\ Pos(s, "retryCondition", k) < Pos(s, "backoff", k)
                /\ Pos(s, "backoff", k) < Pos(s, "backoffDone", k)
                /\ Pos(s, "backoffDone", k) < Pos(s, "fn", k + 1)
                /\ onRetry # "absent" =>
                    /\ Once(s, "onRetry", k)
                    /\ Pos(s, "retryCondition", k) < Pos(s, "onRetry", k)
                    /\ Pos(s, "onRetry", k) < Pos(s, "backoff", k)
                    /\ s.log[Pos(s, "onRetry", k)].id = k
           /\ \A k \in 1..s.calls :
                (Has(s, "backoff", k) /\ onRetry # "absent") =>
                    /\ Has(s, "onRetry", k) /\ Has(s, "retryCondition", k)
                    /\ Pos(s, "retryCondition", k) < Pos(s, "onRetry", k)
                    /\ Pos(s, "onRetry", k) < Pos(s, "backoff", k)

C13_Witness ==
    /\ onRetry = "returns"
    /\ \A e \in Engines :
        /\ sess[e].calls >= 2
        /\ Pos(sess[e], "retryCondition", 1) < Pos(sess[e], "onRetry", 1)
        /\ Pos(sess[e], "onRetry", 1) < Pos(sess[e], "backoff", 1)
        /\ Pos(sess[e], "backoff", 1) < Pos(sess[e], "fn", 2)

\* C14: the k-th onRetry call of a session gets attempt number k and the
\* error produced by the operation's k-th invocation.
C14_OnRetryArguments ==
    \A e \in Engines :
        LET R == EventsOf(sess[e], "onRetry")
        IN \A i \in 1..Len(R) :
            /\ R[i].attempt = i
            /\ i <= Len(script) /\ script[i] # "ok"
            /\ R[i].id = fn(e, i, script[i]).id
            /\ R[i].flag = fn(e, i, script[i]).flag

C14_Witness ==
    /\ onRetry = "returns" /\ maxRetries = 3
    /\ Len(script) >= 3 /\ script[1] = "failT" /\ script[2] = "failF" /\ script[3] = "ok"
    /\ sess["retryAsync"].pc = "resolved"
    /\ sess["retryAsync"].val = success(3)
    /\ sess["retryAsync"].calls = 3
    /\ EventsOf(sess["retryAsync"], "onRetry")
         = <<Event("onRetry", 1, thrown("fn", 1, TRUE)),
             Event("onRetry", 2, thrown("fn", 2, FALSE))>>

\* C15: in every state of a started session with maxRetries = n the
\* operation has been invoked at most n+1 times and the engine's attempt
\* counter lies in 1..n+1 (the loop form declares its counter once the first
\* invocation has returned: until then, or when that invocation raised, the
\* session has no counter and attempt 1 is its only attempt).
C15_AttemptBounds ==
    \A e \in Engines :
        LET s == sess[e]
        IN s.pc # "idle" =>
            /\ s.calls <= maxRetries + 1
            /\ s.attempt <= maxRetries + 1
            /\ \/ s.attempt >= 1
               \/ /\ e = "retryResultLoop" /\ s.calls = 1
                  /\ s.pc \in {"awaitFn", "rejected"}

C15_Witness ==
    /\ maxRetries >= 2
    /\ \A e \in Engines \ {"retryResultRecursive"} :
        /\ sess[e].calls = maxRetries + 1
        /\ sess[e].attempt = maxRetries + 1
    /\ sess["retryResultRecursive"].attempt = maxRetries

\* C16: retryResult resolves with exactly the Result its last invocation
\* produced, a success or the failure that ended the session.
C16_ReturnsLastResult ==
    \A e \in ResultEngines :
        sess[e].pc = "resolved" =>
            /\ sess[e].calls >= 1 /\ sess[e].calls <= Len(script)
            /\ script[sess[e].calls] \in {"ok", "failT", "failF"}
            /\ sess[e].val = fn(e, sess[e].calls, script[sess[e].calls])

C16_Witness ==
    /\ maxRetries = 2 /\ retryCondition = "default"
    /\ sess["retryResultRecursive"].pc = "resolved"
    /\ sess["retryResultRecursive"].val = failure(2, TRUE)
    /\ sess["retryResultLoop"].pc = "resolved"
    /\ sess["retryResultLoop"].val = success(3)

\* C17: on the same options and outcomes retry and retryAsync make the same
\* calls of the operation, retryCondition, onRetry and backoff, with the same
\* arguments in the same order, and end alike.
C17_RetrySameAsRetryAsync ==
    (Terminal(sess["retry"]) /\ Terminal(sess["retryAsync"])) =>
        /\ sess["retry"].log = sess["retryAsync"].log
        /\ sess["retry"].pc = sess["retryAsync"].pc
        /\ sess["retry"].val = sess["retryAsync"].val
        /\ sess["retry"].calls = sess["retryAsync"].calls

C17_Witness ==
    /\ sess["retry"].pc = "rejected" /\ sess["retryAsync"].pc = "rejected"
    /\ sess["retry"].calls = 3
    /\ sess["retry"].val = thrown("fn", 3, FALSE)
    /\ sess["retry"].log = sess["retryAsync"].log
    /\ CountOf(sess["retry"], "onRetry") = 2

\* C18: retryAsync / retry without a retryCondition: a falsy raised value
\* ends the session at once, rejected with that value and with no onRetry or
\* backoff call for that attempt; a truthy raised value with budget left is
\* followed by onRetry and backoff (and, the callbacks not failing, by the
\* next attempt).
C18_DefaultContinuesOnTruthy ==
    \A e \in AsyncEngines :
        retryCondition = "default" =>
            \A j \in 1..Len(script) :
                Settled(e, j) =>
                    /\ script[j] = "failF" =>
                        /\ sess[e].calls = j
                        /\ sess[e].pc = "rejected"
                        /\ sess[e].val = thrown("fn", j, FALSE)
                        /\ ~Has(sess[e], "onRetry", j)
                        /\ ~Has(sess[e], "backoff", j)
                    /\ (script[j] \in {"failT", "raise"} /\ j <= maxRetries) =>
                        /\ onRetry # "absent" => Has(sess[e], "onRetry", j)
                        /\ onRetry # "throws" => Has(sess[e], "backoff", j)
                        /\ WellBehaved =>
                            (sess[e].calls > j \/ sess[e].pc = "awaitBackoff"
                                \/ (e = "retry" /\ sess[e].pc = "lifted"))

C18_Witness ==
    /\ retryCondition = "default" /\ maxRetries = 3 /\ onRetry = "returns"
    /\ Len(script) >= 2 /\ script[1] = "failT" /\ script[2] = "failF"
    /\ \A e \in AsyncEngines :
        /\ sess[e].pc = "rejected"
        /\ sess[e].calls = 2
        /\ sess[e].val = thrown("fn", 2, FALSE)
        /\ CountOf(sess[e], "onRetry") = 1

\* The session of engine e run on its own from s, as far as the decided
\* outcomes go: the engine's steps, none of another session in between.
RECURSIVE SoloRun(_, _)
SoloRun(e, s) ==
    IF Terminal(s) THEN s
    ELSE IF s.pc = "idle" THEN SoloRun(e, StartSession(e, s))
    ELSE IF s.pc = "awaitBackoff" THEN SoloRun(e, AfterBackoff(e, s))
    ELSE IF s.pc = "lifted"
    THEN IF s.calls + 1 > Len(script) THEN s
         ELSE SoloRun(e, Lifted(s, fn(e, s.calls + 1, script[s.calls + 1])))
    ELSE IF e = "retry" THEN SoloRun(e, AfterAttempt(e, Completed(s), s.pending))
    ELSE IF s.calls > Len(script) THEN s
    ELSE SoloRun(e, AfterAttempt(e, Completed(s), fn(e, s.calls, script[s.calls])))

\* C19: sessions that run concurrently on option objects of their own do
\* not affect each other: however their steps interleave, every session
\* makes the calls and ends the way it does when it runs alone on its
\* options and the same outcomes of its operation, and its options are
\* left as they were.
C19_SessionsIndependent ==
    \A e \in Engines :
        LET solo == SoloRun(e, IdleSession(sess[e].options))
        IN /\ sess[e].options = solo.options
           /\ Terminal(sess[e]) => sess[e] = solo
           /\ Len(sess[e].log) <= Len(solo.log)
           /\ sess[e].log = SubSeq(solo.log, 1, Len(sess[e].log))

\* Two sessions with different options are both under way, after a third
\* one that overlapped with the first of them has ended as on its own.
C19_Witness ==
    /\ concurrent = 2
    /\ sess["retryAsync"].options.maxRetries = 2
    /\ sess["retry"].options.maxRetries = 1
    /\ sess["retryAsync"].options.retryCondition # sess["retry"].options.retryCondition
    /\ sess["retryAsync"].pc = "awaitBackoff" /\ sess["retryAsync"].calls = 2
    /\ sess["retry"].pc = "awaitFn" /\ sess["retry"].calls = 2
    /\ Terminal(sess["retryResultLoop"]) /\ sess["retryResultLoop"].calls = 2
    /\ sess["retryResultLoop"] =
            SoloRun("retryResultLoop", IdleSession(sess["retryResultLoop"].options))

\* The engine's cutoff test says that the failed attempt j is retried.
Retried(e, j) ==
    LET p == fn(e, j, script[j])
    IN CASE e \in AsyncEngines ->
                /\ p.kind = "thrown"
                /\ ~retryRecursiveBudget(Options, j)
                /\ prepareOptions(Options, p, j) = "true"
         [] e = "retryResultRecursive" ->
                /\ p.kind = "failure"
                /\ ~retryResultRecursiveBudget(Options, j)
                /\ prepareResultOptions(Options, p, j) = "true"
         [] e = "retryResultLoop" ->
                /\ p.kind = "failure"
                /\ ~retryResultLoopBudget(Options, j)
                /\ loopOptions(Options, p, j) = "true"

\* C20: the outcome of a session does not depend on onRetry. Whether onRetry
\* is absent, returns or raises, a session that has ended (retryCondition
\* not raising, backoff resolving) has invoked the operation up to its first
\* attempt that is not retried, has called backoff once after each attempt
\* before that one, and has ended with that attempt's result.
C20_OutcomeIgnoresOnRetry ==
    \A e \in Engines :
        (Terminal(sess[e]) /\ retryCondition # "throws" /\ backoff = "resolves") =>
            /\ sess[e].calls <= Len(script)
            /\ \A j \in 1..(sess[e].calls - 1) : Retried(e, j)
            /\ ~Retried(e, sess[e].calls)
            /\ Attempts(sess[e], "backoff") = [i \in 1..(sess[e].calls - 1) |-> i]
            /\ sess[e].val = fn(e, sess[e].calls, script[sess[e].calls])

\* C21: the recursive and the loop form of retryResult are observationally
\* equivalent: on the same options and the same operation results they make
\* the same calls of the operation, retryCondition, onRetry and backoff, with
\* the same arguments in the same order, and return the same Result.
C21_RecursiveEqualsLoop ==
    (Terminal(sess["retryResultRecursive"]) /\ Terminal(sess["retryResultLoop"])) =>
        /\ sess["retryResultRecursive"].log = sess["retryResultLoop"].log
        /\ sess["retryResultRecursive"].calls = sess["retryResultLoop"].calls
        /\ sess["retryResultRecursive"].pc = sess["retryResultLoop"].pc
        /\ sess["retryResultRecursive"].val = sess["retryResultLoop"].val

\* min(baseMs * 2^(attempt-1), maxMs), written out.
Clipped(baseMs, maxMs, attempt) ==
    IF LessEq(Times(baseMs, Whole(Pow2(attempt - 1))), maxMs)
    THEN Times(baseMs, Whole(Pow2(attempt - 1))) ELSE maxMs

\* C22: for every attempt >= 1 the function made by exponentialBackoff(baseMs)
\* waits exactly min(baseMs * 2^(attempt-1), 8000).
C22_ExponentialDelayExact ==
    (bk.maker = "exponentialBackoff" /\ bk.calls >= 1) =>
        Same(bk.last.delay, Clipped(bk.options.baseMs, Whole(8000), bk.last.attempt))

\* The bounds of the jittered delay of the last call.
JitterLow ==
    Times(Clipped(bk.params.baseMs, bk.params.maxMs, bk.last.attempt),
          Minus(Whole(1), bk.params.jitterFactor))
JitterHigh ==
    Times(Clipped(bk.params.baseMs, bk.params.maxMs, bk.last.attempt),
          Plus(Whole(1), bk.params.jitterFactor))

\* C23 as stated: for every attempt >= 1, jitterFactor in [0,1] and random
\* draw, the delay lies within
\* [max(0, clipped*(1-jitterFactor)), clipped*(1+jitterFactor)].
C23_DelayWithinJitterBounds ==
    bk.calls >= 1 =>
        /\ LessEq(Whole(0), bk.last.delay)
        /\ LessEq(JitterLow, bk.last.delay)
        /\ LessEq(bk.last.delay, JitterHigh)

\* C23: for every attempt >= 1, jitterFactor in [0,1] and random draw, the
\* delay is never negative and lies within
\* [floor(clipped*(1-jitterFactor)), clipped*(1+jitterFactor)]: the lower
\* end is rounded down to whole milliseconds.
C23_DelayWithinFlooredBounds ==
    bk.calls >= 1 =>
        /\ LessEq(Whole(0), bk.last.delay)
        /\ LessEq(floor(JitterLow), bk.last.delay)
        /\ LessEq(bk.last.delay, JitterHigh)

C23_Witness ==
    /\ bk.calls = 2
    /\ bk.params.baseMs = Whole(3)
    /\ bk.params.jitterFactor = Frac(1, 5)
    /\ bk.prev.attempt = 2 /\ bk.prev.delay = Whole(6)
    /\ bk.last.attempt = 1 /\ bk.last.r.n = 0 /\ bk.last.delay = Whole(2)
    /\ ~LessEq(JitterLow, bk.last.delay)

\* C24: with jitterFactor 0 a backoff function calls no random source, and
\* two calls with the same attempt wait the same time, the clipped
\* exponential delay.
C24_NoJitterIsDeterministic ==
    (bk.calls >= 1 /\ Same(bk.params.jitterFactor, Whole(0))) =>
        /\ bk.draws = 0
        /\ Same(bk.last.delay,
                Clipped(bk.params.baseMs, bk.params.maxMs, bk.last.attempt))
        /\ (bk.calls >= 2 /\ bk.prev.attempt = bk.last.attempt) =>
                Same(bk.prev.delay, bk.last.delay)

\* The parameters a backoff function made from options works with, field
\* by field.
FieldOr(field, default) == IF field = Undefined THEN default ELSE field
ExpectedParams(options) ==
    [baseMs |-> FieldOr(options.baseMs, Whole(200)),
     maxMs |-> FieldOr(options.maxMs, Whole(8000)),
     jitterFactor |-> FieldOr(options.jitterFactor, Frac(1, 5))]

\* C25: a BackoffOptions field that is not set takes its default (baseMs
\* 200, maxMs 8000, jitterFactor 0.2) whatever the other fields are, a field
\* that is set, jitterFactor 0 included, is used as given, and the function
\* made by createBackoff(options) waits what the one made by
\* exponentialBackoffWithJitter(options) waits.
C25_DefaultsPerField ==
    bk.pc # "none" =>
        /\ bk.params = ExpectedParams(bk.options)
        /\ (bk.calls >= 1 /\ bk.maker \in {"createBackoff", "exponentialBackoffWithJitter"}) =>
                bk.last.delay =
                    finalDelay(bk.version, ExpectedParams(bk.options), bk.last.attempt,
                               FieldOr(bk.last.r, Whole(0)))

C25_Witness ==
    /\ bk.maker = "createBackoff"
    /\ bk.options.given
    /\ bk.options.baseMs = Undefined
    /\ bk.options.maxMs = Whole(1000)
    /\ bk.options.jitterFactor = Whole(0)
    /\ bk.params = [baseMs |-> Whole(200), maxMs |-> Whole(1000), jitterFactor |-> Whole(0)]
    /\ bk.calls = 2
    /\ bk.prev.attempt = 2 /\ Same(bk.prev.delay, Whole(400))
    /\ bk.last.attempt = 4 /\ Same(bk.last.delay, Whole(1000))

\* The call of helper op has ended.
Ended(op) == rs.op = op /\ rs.pc = "done"

\* C26: all(results) returns a success carrying the values in input order
\* when every element is a success (of the empty list for no element), and
\* else the failure at the lowest index, whatever comes after it.
C26_AllFirstFailure ==
    Ended("all") =>
        LET results == rs.input
            bad == {i \in 1..Len(results) : results[i].success = FALSE}
        IN /\ rs.out.how = "returned"
           /\ bad = {} =>
                /\ rs.out.val.success = TRUE
                /\ rs.out.val.value = [i \in 1..Len(results) |-> results[i].value]
           /\ bad # {} =>
                /\ rs.out.val.success = FALSE
                /\ \E i \in bad :
                    /\ \A j \in bad : i <= j
                    /\ rs.out.val = results[i]

C26_Witness ==
    /\ Ended("all")
    /\ rs.input = <<Success(1), Failure(2), Failure(1)>>
    /\ rs.out = Returned(Failure(2))

\* C27: map, flatMap, mapAsync and flatMapAsync applied to a failure return
\* (resolve with) a failure carrying the same error and never call the
\* transform function.
C27_FailurePassesThrough ==
    \A op \in {"map", "flatMap", "mapAsync", "flatMapAsync"} :
        (rs.op = op /\ rs.input.success = FALSE) =>
            /\ rs.pc = "done"
            /\ rs.args = <<>>
            /\ rs.out.how = (IF op \in {"map", "flatMap"} THEN "returned" ELSE "resolved")
            /\ rs.out.val.success = FALSE
            /\ rs.out.val.error = rs.input.error

C27_Witness ==
    /\ Ended("flatMapAsync")
    /\ rs.input = Failure(2)
    /\ rs.fn = "throws"
    /\ rs.args = <<>>
    /\ rs.out = Resolved(Failure(2))

C29_MapErrorMapsTheError ==
    Ended("mapError") =>
        /\ rs.input.success = TRUE =>
            /\ rs.args = <<>>
            /\ rs.out = Returned(Success(rs.input.value))
        /\ (rs.input.success = FALSE /\ rs.fn = "returns") =>
            rs.out = Returned(Failure(Transformed(rs.input.error)))

C29_Witness ==
    /\ Ended("mapError")
    /\ rs.input = Failure(2)
    /\ rs.fn = "returns"
    /\ rs.out = Returned(Failure(12))

\* C30: tryAsync never rejects: when fn returns v it resolves with
\* success(v), when fn raises x it resolves with a failure whose error is x.
C30_TryAsyncNeverRejects ==
    Ended("tryAsync") =>
        /\ rs.out.how = "resolved"
        /\ rs.fn = "returns" => rs.out.val = Success(rs.input)
        /\ rs.fn = "throws" => rs.out.val = Failure(rs.input)

\* The synchronous helpers.
SyncHelpers ==
    {"isSuccess", "isFailure", "unwrap", "unwrapOrThrow", "map", "flatMap", "mapError", "all"}

\* C31 as stated: among the synchronous helpers only unwrapOrThrow raises,
\* and only for a failure; for a success it returns the value, for a failure
\* with error e it raises transform(e), by default a generic error built
\* from the string form of e.
C31_OnlyUnwrapOrThrowRaises ==
    (rs.pc = "done" /\ rs.op \in SyncHelpers) =>
        /\ rs.out.how = "raised" => (rs.op = "unwrapOrThrow" /\ rs.input.success = FALSE)
        /\ rs.op = "unwrapOrThrow" =>
            /\ rs.input.success = TRUE => rs.out = Returned(rs.input.value)
            /\ (rs.input.success = FALSE /\ rs.fn = "default") =>
                    rs.out = Raised(NewError(rs.input.error))
            /\ (rs.input.success = FALSE /\ rs.fn = "returns") =>
                    rs.out = Raised(CustomError(rs.input.error))

\* C31: isSuccess, isFailure, unwrap and all never raise; map, flatMap and
\* mapError raise only what their transform throws, on the branch that calls
\* it; unwrapOrThrow returns the value of a success without calling the
\* transformer, and for a failure with error e calls the transformer once
\* with e and raises: what the transformer returns, by default a new Error
\* of String(e), or the TypeError of String(e) when e has no string form.
C31_RaisesOnlyOnFailureOrFromTransform ==
    (rs.pc = "done" /\ rs.op \in SyncHelpers) =>
        /\ rs.op \in {"isSuccess", "isFailure", "unwrap", "all"} => rs.out.how = "returned"
        /\ (rs.op \in {"map", "flatMap", "mapError"} /\ rs.out.how = "raised") =>
            /\ rs.fn = "throws"
            /\ Len(rs.args) = 1
            /\ rs.out.val = TransformError
        /\ rs.op = "unwrapOrThrow" =>
            /\ rs.input.success = TRUE =>
                (rs.out = Returned(rs.input.value) /\ rs.args = <<>>)
            /\ rs.input.success = FALSE =>
                /\ rs.out.how = "raised"
                /\ rs.args = <<rs.input.error>>
                /\ rs.fn = "returns" => rs.out.val = CustomError(rs.input.error)
                /\ (rs.fn = "default" /\ rs.input.error.printable) =>
                        rs.out.val = NewError(rs.input.error)
                /\ (rs.fn = "default" /\ ~rs.input.error.printable) =>
                        rs.out.val = TypeError

C31_Witness ==
    /\ Ended("unwrapOrThrow")
    /\ rs.input = Failure(Thrown(2, FALSE, TRUE))
    /\ rs.fn = "default"
    /\ rs.out = Raised(NewError(Thrown(2, FALSE, TRUE)))

\* C32: unwrap(success(v), fallback) is v and unwrap(failure(e), fallback)
\* is fallback, for every v, e and fallback.
C32_UnwrapRoundTrip ==
    Ended("unwrap") =>
        /\ rs.out.how = "returned"
        /\ \A v \in Values : rs.input.result = Success(v) => rs.out.val = v
        /\ \A e \in Errors : rs.input.result = Failure(e) => rs.out.val = rs.input.fallback

C32_Witness ==
    /\ Ended("unwrap")
    /\ rs.input = [result |-> Failure(1), fallback |-> 7]
    /\ rs.out = Returned(7)

\* C33: for a Result built by success() or failure() exactly one of
\* isSuccess and isFailure holds: isSuccess exactly for those built by
\* success(), isFailure exactly for those built by failure().
C33_ExactlyOneVariant ==
    /\ Ended("isSuccess") =>
        /\ rs.out = Returned(rs.fn = "success")
        /\ isSuccess(rs.input) # isFailure(rs.input)
    /\ Ended("isFailure") =>
        /\ rs.out = Returned(rs.fn = "failure")
        /\ isSuccess(rs.input) # isFailure(rs.input)

C33_Witness ==
    /\ Ended("isFailure")
    /\ rs.input = Success(2)
    /\ rs.fn = "success"
    /\ rs.out = Returned(FALSE)

\* C34: every retry session whose operation and backoff calls complete
\* reaches a terminal state, after at most maxRetries + 1 invocations of the
\* operation, whatever retryCondition answers.
C34_SessionsTerminate ==
    /\ [](\A e \in Engines : sess[e].calls <= sess[e].options.maxRetries + 1)
    /\ \A e \in Engines : (sess[e].pc # "idle") ~> Terminal(sess[e])

C34_Witness ==
    /\ retryCondition = "always" /\ onRetry = "returns" /\ backoff = "resolves"
    /\ maxRetries >= 2
    /\ sess["retryResultLoop"].pc = "resolved"
    /\ sess["retryResultLoop"].val.kind = "failure"
    /\ sess["retryResultLoop"].calls = maxRetries + 1
    /\ sess["retryAsync"].pc = "rejected"
    /\ sess["retryAsync"].calls = maxRetries + 1

\* C35: retryCondition is evaluated at most once per failed attempt, with
\* that attempt's error and number, never for an attempt beyond maxRetries
\* (so at most maxRetries times in a session) and never for an attempt that
\* succeeded.
C35_ConditionOncePerFailure ==
    \A e \in Engines :
        LET R == EventsOf(sess[e], "retryCondition")
        IN /\ Len(R) <= maxRetries
           /\ \A i, j \in 1..Len(R) : i # j => R[i].attempt # R[j].attempt
           /\ \A i \in 1..Len(R) :
                LET k == R[i].attempt
                IN /\ 1 <= k /\ k <= maxRetries
                   /\ k <= Len(script) /\ script[k] # "ok"
                   /\ R[i].id = fn(e, k, script[k]).id
                   /\ R[i].flag = fn(e, k, script[k]).flag

C35_Witness ==
    /\ retryCondition = "always" /\ maxRetries = 2
    /\ Len(script) >= 3 /\ script[1] = "failF" /\ script[2] = "failT" /\ script[3] = "failT"
    /\ sess["retryAsync"].pc = "rejected"
    /\ sess["retryAsync"].calls = 3
    /\ EventsOf(sess["retryAsync"], "retryCondition")
         = <<Event("retryCondition", 1, thrown("fn", 1, FALSE)),
             Event("retryCondition", 2, thrown("fn", 2, TRUE))>>

\* The attempts a session has started: those that have settled and those
\* in flight.
Started(s) == CountOf(s, "fnDone") + s.inflight

BackoffArguments ==
    \A e \in Engines :
        LET B == EventsOf(sess[e], "backoff")
        IN \A i \in 1..Len(B) : B[i].attempt = i /\ i <= sess[e].calls

\* The call with attempt 1 of a function made by exponentialBackoff(baseMs)
\* waits baseMs.
FirstWaitIsBase ==
    (bk.maker = "exponentialBackoff" /\ bk.calls >= 1 /\ bk.last.attempt = 1) =>
        Same(bk.last.delay, bk.params.baseMs)

\* C37: the successive backoff calls of a session receive 1, 2, 3, ... (the
\* number of the attempt that just failed), and the first wait of the
\* exponential backoff without jitter lasts baseMs.
C37_BackoffArgumentsAndFirstWait ==
    BackoffArguments /\ FirstWaitIsBase

\* A reply that the client flags recoverable: a timeout, a network error,
\* an HTTP status 500-599.
FlaggedRecoverable(reply) ==
    \/ reply.kind \in {"timeout", "network"}
    \/ reply.kind = "response" /\ reply.status \in 500..599

====
